---------------------------- MODULE Spec2Model ----------------------------
(***************************************************************************)
(* A model of "Event Stream Processing.cpp": a vector of SimulationEvent   *)
(* records and the free functions that sort, filter, group, accumulate and *)
(* search it.                                                              *)
(*                                                                         *)
(* Numbers.  timestampSec and value are doubles in the program.  The model *)
(* uses integers: a timestamp is counted in tenths of a second (5.0 is 50, *)
(* 10.5 is 105) and a value in units.  Every double the model's inputs     *)
(* stand for is exactly representable and so is every sum of them, so the  *)
(* comparisons and additions of the program are the integer ones.  NaN     *)
(* timestamps are outside the model.                                       *)
(*                                                                         *)
(* Indices.  A C++ index i is the TLA+ position i + 1.  A returned pointer *)
(* into a vector is modelled by the C++ index of the element it points to. *)
(***************************************************************************)
EXTENDS Integers, Sequences, FiniteSets, TLC

VARIABLES
    events,     \* the caller's std::vector<SimulationEvent>
    sortImpl,   \* how this build's std::ranges::sort orders equal keys
    op,         \* the function called last
    input,      \* the content of `events` when that call was made
    args,       \* the other arguments of that call
    ret,        \* what that call returned
    printed,    \* what that call wrote to std::cout
    outcome     \* "returned", or what became of a call with undefined behaviour

vars == <<events, sortImpl, op, input, args, ret, printed, outcome>>

---------------------------------------------------------------------------
(* Bounds of the model *)

MaxLen == 3     \* longest vector drawn in Init
MaxTime == 1    \* largest timestamp (in tenths of a second) drawn in Init

---------------------------------------------------------------------------
(* The data model *)

EventType == {"SENSOR_READING", "CONTROL_INPUT", "ACTUATOR_COMMAND"}

\* static_cast<int>(event.type), as PrintEvents prints it
EventTypeInt(type) ==
    CASE type = "SENSOR_READING" -> 0
      [] type = "CONTROL_INPUT" -> 1
      [] type = "ACTUATOR_COMMAND" -> 2

SimulationEvent(timestampSec, type, source, value) ==
    [timestampSec |-> timestampSec, type |-> type, source |-> source, value |-> value]

\* events.push_back(...) eleven times, onto whatever the vector holds
ConstructMockingSimulationEventVector(evs) ==
    evs \o << SimulationEvent(50, "ACTUATOR_COMMAND", "flaps", 15),
              SimulationEvent(15, "CONTROL_INPUT", "pilot", 75),
              SimulationEvent(105, "CONTROL_INPUT", "pilot", 85),
              SimulationEvent(0, "SENSOR_READING", "engine1", 100),
              SimulationEvent(32, "SENSOR_READING", "altimeter", 5000),
              SimulationEvent(45, "CONTROL_INPUT", "pilot", 80),
              SimulationEvent(92, "SENSOR_READING", "altimeter", 6000),
              SimulationEvent(20, "ACTUATOR_COMMAND", "rudder", 30),
              SimulationEvent(60, "SENSOR_READING", "engine2", 110),
              SimulationEvent(75, "CONTROL_INPUT", "pilot", 70),
              SimulationEvent(80, "ACTUATOR_COMMAND", "aileron", 20) >>

\* one printed line per event: timestamp, static_cast<int>(type), source, value
PrintEvents(evs) ==
    [i \in 1..Len(evs) |->
        <<evs[i].timestampSec, EventTypeInt(evs[i].type), evs[i].source, evs[i].value>>]

---------------------------------------------------------------------------
(* Inputs *)

\* (type, source, value) of the events Init draws: two events of one source
\* with different kinds, two of one kind with different sources.  The kind
\* ACTUATOR_COMMAND and the source "rudder" occur in no drawn event, so that
\* filters, folds and lookups also run with nothing matching.
Payloads ==
    { <<"CONTROL_INPUT", "pilot", 75>>,
      <<"SENSOR_READING", "pilot", 85>>,
      <<"SENSOR_READING", "altimeter", 5000>> }

EventPool ==
    { SimulationEvent(t, p[1], p[2], p[3]) : t \in 0..MaxTime, p \in Payloads }

RECURSIVE SeqsUpTo(_, _)
SeqsUpTo(S, n) ==
    IF n = 0 THEN { <<>> }
    ELSE LET shorter == SeqsUpTo(S, n - 1)
         IN  shorter \cup { Append(s, x) : s \in { q \in shorter : Len(q) = n - 1 }, x \in S }

Sources == {"pilot", "altimeter", "rudder"}

\* thresholds: inside the drawn timestamps, and 6.0 and 100.0 of the reference set
Thresholds == (0..MaxTime) \cup {60, 1000}

SortImpls == {"insertion", "selection"}

DefaultArgs ==
    [source |-> "", type |-> "SENSOR_READING", thresholdTime |-> 0, isAscending |-> TRUE]

NullPtr == [null |-> TRUE, index |-> 0]
PtrTo(i) == [null |-> FALSE, index |-> i]

NoRet == [seq |-> <<>>, map |-> <<>>, sum |-> 0, ptr |-> NullPtr]
NoPrint == [header |-> "", lines |-> <<>>]

---------------------------------------------------------------------------
(* std::ranges::sort(range, comp, &SimulationEvent::timestampSec)          *)
(*                                                                         *)
(* The comparison is applied to the projected key: std::ranges::less when  *)
(* comp is {} and std::greater<double> in the descending branch.  The      *)
(* standard leaves the order of elements with equal keys unspecified; a    *)
(* build fixes it by the algorithm it runs, the same one at every call.    *)
(* sortImpl is that choice: an insertion sort, which keeps equal keys in   *)
(* input order (what libstdc++ and MSVC run on short ranges), or a         *)
(* selection sort by swaps, which does not (standing for the partitioning  *)
(* and heap phases that the libraries run on longer ranges).               *)

\* comp(proj(a), proj(b))
Before(a, b, isAscending) ==
    IF isAscending THEN a.timestampSec < b.timestampSec
                   ELSE a.timestampSec > b.timestampSec

RECURSIVE InsertSorted(_, _, _)
InsertSorted(sorted, x, isAscending) ==
    IF sorted = <<>> THEN <<x>>
    ELSE LET last == sorted[Len(sorted)]
         IN  IF Before(x, last, isAscending)
             THEN Append(InsertSorted(SubSeq(sorted, 1, Len(sorted) - 1), x, isAscending), last)
             ELSE Append(sorted, x)

RECURSIVE InsertionSort(_, _)
InsertionSort(s, isAscending) ==
    IF s = <<>> THEN <<>>
    ELSE InsertSorted(InsertionSort(SubSeq(s, 1, Len(s) - 1), isAscending),
                      s[Len(s)], isAscending)

\* position of the first element of s[from..Len(s)] that no other one goes before
RECURSIVE MinPos(_, _, _, _)
MinPos(s, from, best, isAscending) ==
    IF from > Len(s) THEN best
    ELSE MinPos(s, from + 1,
                IF Before(s[from], s[best], isAscending) THEN from ELSE best,
                isAscending)

Swap(s, i, j) == [s EXCEPT ![i] = s[j], ![j] = s[i]]

RECURSIVE SelectionSortFrom(_, _, _)
SelectionSortFrom(s, i, isAscending) ==
    IF i >= Len(s) THEN s
    ELSE SelectionSortFrom(Swap(s, i, MinPos(s, i + 1, i, isAscending)), i + 1, isAscending)

RangesSort(s, isAscending) ==
    IF sortImpl = "insertion" THEN InsertionSort(s, isAscending)
                              ELSE SelectionSortFrom(s, 1, isAscending)

\* mutant: the comparator of the descending branch, std::greater<double>
SortByTime_descending(evs) ==
    LET sorted == evs
    IN  RangesSort(sorted, FALSE)

\* mutant: the copy is returned without the std::ranges::sort call
SortByTime_unsorted(evs) ==
    LET sorted == evs
    IN  sorted

\* auto sorted{ events }; std::ranges::sort(sorted, {}, &timestampSec); return sorted;
SortByTime(evs) ==
    LET sorted == evs
    IN  RangesSort(sorted, TRUE)

\* mutant: the copy is returned before it is sorted
SortByTimeAndReturnACopy_unsorted(evs) ==
    LET sortedByTime == evs
    IN  sortedByTime

SortByTimeAndReturnACopy(evs) ==
    LET sortedByTime == evs
    IN  RangesSort(sortedByTime, TRUE)

\* the content of the caller's vector after SortEventsByTime(std::vector<SimulationEvent>&)
SortEventsByTime(evs) == RangesSort(evs, TRUE)

\* the local copy that SortEventsByTime(const std::vector<SimulationEvent>&, bool) prints
SortEventsByTime_const(evs, isAscending) ==
    LET sortedByTimeEvents == evs
    IN  IF isAscending THEN RangesSort(sortedByTimeEvents, TRUE)
                       ELSE RangesSort(sortedByTimeEvents, FALSE)

---------------------------------------------------------------------------
(* Filters: std::ranges::copy_if(events, std::back_inserter(out), pred)    *)

\* copy_if with the predicate source == event.source, appending to `out`
RECURSIVE CopyIfSource(_, _, _)
CopyIfSource(evs, out, source) ==
    IF evs = <<>> THEN out
    ELSE CopyIfSource(Tail(evs),
                      IF source = Head(evs).source THEN Append(out, Head(evs)) ELSE out,
                      source)

\* copy_if with the predicate ev.type == typeToFilter, appending to `out`
RECURSIVE CopyIfType(_, _, _)
CopyIfType(evs, out, type) ==
    IF evs = <<>> THEN out
    ELSE CopyIfType(Tail(evs),
                    IF Head(evs).type = type THEN Append(out, Head(evs)) ELSE out,
                    type)

\* std::vector<SimulationEvent> filtered{ events }; copy_if(...); return filtered;
FliterBySource(evs, source) ==
    LET filtered == evs
    IN  CopyIfSource(evs, filtered, source)

\* FilterByType(const std::vector<SimulationEvent>&, const EventType&): the local
\* filteredEvents when control reaches the closing brace; nothing is returned
FilterByType_constRef_local(evs, type) ==
    LET filteredEvents == evs
    IN  CopyIfType(evs, filteredEvents, type)

\* Flowing off the end of a function that returns a value is undefined: the
\* call may crash, or hand the caller some vector that is not the filtered one.
FilterByType_constRef_outcomes(evs, type) ==
    { [outcome |-> "crashed", seq |-> <<>>],
      [outcome |-> "garbage", seq |-> <<>>],
      [outcome |-> "garbage", seq |-> FilterByType_constRef_local(evs, type)] }

\* mutant: the output starts as a copy of the input, as in the other overload
FilterByType_fromCopy(evs, typeToFilter) ==
    LET filtered == evs
    IN  CopyIfType(evs, filtered, typeToFilter)

\* FilterByType(const std::vector<SimulationEvent>&, EventType)
FilterByType(evs, typeToFilter) ==
    LET filtered == <<>>
    IN  CopyIfType(evs, filtered, typeToFilter)

---------------------------------------------------------------------------
(* Groups: for (event : events) grouped[event.key].push_back(event);       *)

\* mutant: the group is assigned the event instead of being appended to
PushBackAt_assign(grouped, key, event) ==
    IF key \in DOMAIN grouped
    THEN [grouped EXCEPT ![key] = <<event>>]
    ELSE grouped @@ (key :> <<event>>)

\* grouped[key].push_back(event): operator[] inserts an empty vector for a new key
PushBackAt(grouped, key, event) ==
    IF key \in DOMAIN grouped
    THEN [grouped EXCEPT ![key] = Append(@, event)]
    ELSE grouped @@ (key :> <<event>>)

RECURSIVE GroupByTypeLoop(_, _)
GroupByTypeLoop(evs, grouped) ==
    IF evs = <<>> THEN grouped
    ELSE GroupByTypeLoop(Tail(evs), PushBackAt(grouped, Head(evs).type, Head(evs)))

\* the parameter `type` is not used
GroupByType(evs, type) == GroupByTypeLoop(evs, <<>>)

RECURSIVE GroupBySourceLoop(_, _)
GroupBySourceLoop(evs, grouped) ==
    IF evs = <<>> THEN grouped
    ELSE GroupBySourceLoop(Tail(evs), PushBackAt(grouped, Head(evs).source, Head(evs)))

GroupBySource(evs) == GroupBySourceLoop(evs, <<>>)

\* the second definition of GroupBySource
RECURSIVE GroupBySource_2_Loop(_, _)
GroupBySource_2_Loop(evs, GroupedBySource) ==
    IF evs = <<>> THEN GroupedBySource
    ELSE GroupBySource_2_Loop(Tail(evs),
                              PushBackAt(GroupedBySource, Head(evs).source, Head(evs)))

GroupBySource_2(evs) == GroupBySource_2_Loop(evs, <<>>)

---------------------------------------------------------------------------
(* Folds: std::accumulate(events.begin(), events.end(), 0.0, lambda)       *)

\* sum + (type == event.type ? event.value : 0.0), left to right
RECURSIVE AccumulateType(_, _, _)
AccumulateType(evs, sum, type) ==
    IF evs = <<>> THEN sum
    ELSE AccumulateType(Tail(evs),
                        sum + (IF type = Head(evs).type THEN Head(evs).value ELSE 0),
                        type)

\* mutant: the lambda adds every value, whatever the source
RECURSIVE AccumulateSource_everySource(_, _, _)
AccumulateSource_everySource(evs, sum, source) ==
    IF evs = <<>> THEN sum
    ELSE AccumulateSource_everySource(Tail(evs), sum + Head(evs).value, source)

\* sum + (event.source == source ? event.value : 0.0), left to right
RECURSIVE AccumulateSource(_, _, _)
AccumulateSource(evs, sum, source) ==
    IF evs = <<>> THEN sum
    ELSE AccumulateSource(Tail(evs),
                          sum + (IF Head(evs).source = source THEN Head(evs).value ELSE 0),
                          source)

AcumulatebySource(evs, type) == AccumulateType(evs, 0, type)

AcumulateTotalBySource(evs, source) == AccumulateSource(evs, 0, source)

AccumalateValueBySource(evs, source) == AccumulateSource(evs, 0, source)

ComputeTotalValueBySource(evs, source) == AccumulateSource(evs, 0, source)

---------------------------------------------------------------------------
(* Search: std::ranges::find_if(events, timestampSec > thresholdTime)      *)

\* the position find_if stops at, scanning from `it`; Len(evs) + 1 is events.end()
RECURSIVE FindIfAfter(_, _, _)
FindIfAfter(evs, thresholdTime, it) ==
    IF it > Len(evs) THEN it
    ELSE IF evs[it].timestampSec > thresholdTime THEN it
    ELSE FindIfAfter(evs, thresholdTime, it + 1)

\* FirstEventAfter(const std::vector<SimulationEvent>&, const double&)
FirstEventAfter_constRef(evs, thresholdTime) ==
    LET it == FindIfAfter(evs, thresholdTime, 1)
    IN  IF it /= Len(evs) + 1 THEN PtrTo(it - 1) ELSE NullPtr

\* mutant: the predicate is >= instead of >
FirstEventAfter_notStrict(evs, thresholdTime) ==
    LET atOrAfter == { i \in 1..Len(evs) : evs[i].timestampSec >= thresholdTime }
    IN  IF atOrAfter = {} THEN NullPtr
        ELSE PtrTo((CHOOSE i \in atOrAfter : \A j \in atOrAfter : i <= j) - 1)

\* mutant: the earliest event in time after the threshold, not the first in position
FirstEventAfter_earliest(evs, thresholdTime) ==
    LET after == { i \in 1..Len(evs) : evs[i].timestampSec > thresholdTime }
    IN  IF after = {} THEN NullPtr
        ELSE PtrTo((CHOOSE i \in after :
                      \A j \in after :
                          \/ evs[i].timestampSec < evs[j].timestampSec
                          \/ evs[i].timestampSec = evs[j].timestampSec /\ i <= j) - 1)

\* FirstEventAfter(const std::vector<SimulationEvent>&, double)
FirstEventAfter(evs, thresholdTime) ==
    LET it == FindIfAfter(evs, thresholdTime, 1)
    IN  IF it /= Len(evs) + 1 THEN PtrTo(it - 1) ELSE NullPtr

---------------------------------------------------------------------------
(* The state machine: a caller holding one vector calls the functions, one *)
(* call at a time (op = "none" between calls).                             *)

Init ==
    /\ events \in SeqsUpTo(EventPool, MaxLen)
    /\ sortImpl \in SortImpls
    /\ op = "none"
    /\ input = <<>>
    /\ args = DefaultArgs
    /\ ret = NoRet
    /\ printed = NoPrint
    /\ outcome = "returned"

\* main: std::vector<SimulationEvent> events{}; event.ConstructMockingSimulationEventVector(events);
\* the guard is main's call site, the one place that fills a vector
CallConstructMockingSimulationEventVector ==
    /\ events = <<>>
    /\ op = "none"
    /\ op' = "ConstructMockingSimulationEventVector"
    /\ input' = events
    /\ args' = DefaultArgs
    /\ ret' = NoRet
    /\ printed' = NoPrint
    /\ outcome' = "returned"
    /\ events' = ConstructMockingSimulationEventVector(events) /\ UNCHANGED sortImpl

CallSortByTime ==
    /\ op = "none"
    /\ op' = "SortByTime"
    /\ input' = events
    /\ args' = DefaultArgs
    /\ ret' = [NoRet EXCEPT !.seq = SortByTime(events)]
    /\ printed' = NoPrint
    /\ outcome' = "returned"
    /\ UNCHANGED <<events, sortImpl>>

CallSortByTimeAndReturnACopy ==
    /\ op = "none"
    /\ op' = "SortByTimeAndReturnACopy"
    /\ input' = events
    /\ args' = DefaultArgs
    /\ ret' = [NoRet EXCEPT !.seq = SortByTimeAndReturnACopy(events)]
    /\ printed' = NoPrint
    /\ outcome' = "returned"
    /\ UNCHANGED <<events, sortImpl>>

\* sorts the caller's vector and prints it
CallSortEventsByTime ==
    /\ op = "none"
    /\ op' = "SortEventsByTime"
    /\ input' = events
    /\ args' = DefaultArgs
    /\ ret' = NoRet
    /\ printed' = [header |-> "SortEventsByTime, in-place", lines |-> PrintEvents(SortEventsByTime(events))]
    /\ outcome' = "returned"
    /\ events' = SortEventsByTime(events) /\ UNCHANGED sortImpl

\* sorts a copy and prints it; the caller's vector is const
CallSortEventsByTime_const ==
    \E isAscending \in BOOLEAN :
        /\ op = "none"
        /\ op' = "SortEventsByTime_const"
        /\ input' = events
        /\ args' = [DefaultArgs EXCEPT !.isAscending = isAscending]
        /\ ret' = NoRet
        /\ printed' = [header |-> "SortEventsByTime, value",
                       lines |-> PrintEvents(SortEventsByTime_const(events, isAscending))]
        /\ outcome' = "returned"
        /\ UNCHANGED <<events, sortImpl>>

CallFliterBySource ==
    \E source \in Sources :
        /\ op = "none"
        /\ op' = "FliterBySource"
        /\ input' = events
        /\ args' = [DefaultArgs EXCEPT !.source = source]
        /\ ret' = [NoRet EXCEPT !.seq = FliterBySource(events, source)]
        /\ printed' = NoPrint
        /\ outcome' = "returned"
        /\ UNCHANGED <<events, sortImpl>>

\* the overload without a return statement: one of its undefined outcomes
CallFilterByType_constRef ==
    \E type \in EventType :
        \E o \in FilterByType_constRef_outcomes(events, type) :
            /\ op = "none"
            /\ op' = "FilterByType_constRef"
            /\ input' = events
            /\ args' = [DefaultArgs EXCEPT !.type = type]
            /\ ret' = [NoRet EXCEPT !.seq = o.seq]
            /\ printed' = NoPrint
            /\ outcome' = o.outcome
            /\ UNCHANGED <<events, sortImpl>>

CallFilterByType ==
    \E typeToFilter \in EventType :
        /\ op = "none"
        /\ op' = "FilterByType"
        /\ input' = events
        /\ args' = [DefaultArgs EXCEPT !.type = typeToFilter]
        /\ ret' = [NoRet EXCEPT !.seq = FilterByType(events, typeToFilter)]
        /\ printed' = [header |-> "FilterByType",
                       lines |-> PrintEvents(FilterByType(events, typeToFilter))]
        /\ outcome' = "returned"
        /\ UNCHANGED <<events, sortImpl>>

CallGroupByType ==
    \E type \in EventType :
        /\ op = "none"
        /\ op' = "GroupByType"
        /\ input' = events
        /\ args' = [DefaultArgs EXCEPT !.type = type]
        /\ ret' = [NoRet EXCEPT !.map = GroupByType(events, type)]
        /\ printed' = NoPrint
        /\ outcome' = "returned"
        /\ UNCHANGED <<events, sortImpl>>

CallGroupBySource ==
    /\ op = "none"
    /\ op' = "GroupBySource"
    /\ input' = events
    /\ args' = DefaultArgs
    /\ ret' = [NoRet EXCEPT !.map = GroupBySource(events)]
    /\ printed' = NoPrint
    /\ outcome' = "returned"
    /\ UNCHANGED <<events, sortImpl>>

CallGroupBySource_2 ==
    /\ op = "none"
    /\ op' = "GroupBySource_2"
    /\ input' = events
    /\ args' = DefaultArgs
    /\ ret' = [NoRet EXCEPT !.map = GroupBySource_2(events)]
    /\ printed' = NoPrint
    /\ outcome' = "returned"
    /\ UNCHANGED <<events, sortImpl>>

CallAcumulatebySource ==
    \E type \in EventType :
        /\ op = "none"
        /\ op' = "AcumulatebySource"
        /\ input' = events
        /\ args' = [DefaultArgs EXCEPT !.type = type]
        /\ ret' = [NoRet EXCEPT !.sum = AcumulatebySource(events, type)]
        /\ printed' = NoPrint
        /\ outcome' = "returned"
        /\ UNCHANGED <<events, sortImpl>>

CallAcumulateTotalBySource ==
    \E source \in Sources :
        /\ op = "none"
        /\ op' = "AcumulateTotalBySource"
        /\ input' = events
        /\ args' = [DefaultArgs EXCEPT !.source = source]
        /\ ret' = [NoRet EXCEPT !.sum = AcumulateTotalBySource(events, source)]
        /\ printed' = NoPrint
        /\ outcome' = "returned"
        /\ UNCHANGED <<events, sortImpl>>

CallAccumalateValueBySource ==
    \E source \in Sources :
        /\ op = "none"
        /\ op' = "AccumalateValueBySource"
        /\ input' = events
        /\ args' = [DefaultArgs EXCEPT !.source = source]
        /\ ret' = [NoRet EXCEPT !.sum = AccumalateValueBySource(events, source)]
        /\ printed' = NoPrint
        /\ outcome' = "returned"
        /\ UNCHANGED <<events, sortImpl>>

CallComputeTotalValueBySource ==
    \E source \in Sources :
        /\ op = "none"
        /\ op' = "ComputeTotalValueBySource"
        /\ input' = events
        /\ args' = [DefaultArgs EXCEPT !.source = source]
        /\ ret' = [NoRet EXCEPT !.sum = ComputeTotalValueBySource(events, source)]
        /\ printed' = NoPrint
        /\ outcome' = "returned"
        /\ UNCHANGED <<events, sortImpl>>

CallFirstEventAfter_constRef ==
    \E thresholdTime \in Thresholds :
        /\ op = "none"
        /\ op' = "FirstEventAfter_constRef"
        /\ input' = events
        /\ args' = [DefaultArgs EXCEPT !.thresholdTime = thresholdTime]
        /\ ret' = [NoRet EXCEPT !.ptr = FirstEventAfter_constRef(events, thresholdTime)]
        /\ printed' = NoPrint
        /\ outcome' = "returned"
        /\ UNCHANGED <<events, sortImpl>>

CallFirstEventAfter ==
    \E thresholdTime \in Thresholds :
        /\ op = "none"
        /\ op' = "FirstEventAfter"
        /\ input' = events
        /\ args' = [DefaultArgs EXCEPT !.thresholdTime = thresholdTime]
        /\ ret' = [NoRet EXCEPT !.ptr = FirstEventAfter(events, thresholdTime)]
        /\ printed' = NoPrint
        /\ outcome' = "returned"
        /\ UNCHANGED <<events, sortImpl>>

\* Sort first, then search: the caller holds the vector that SortByTime
\* returned (ret.seq) and FirstEventAfter searches it; the pointer returned
\* points into that vector, not into the caller's own.
CallFirstEventAfter_SortByTime ==
    \E thresholdTime \in Thresholds :
        LET sorted == SortByTime(events)
        IN  /\ op = "none"
            /\ op' = "FirstEventAfter_SortByTime"
            /\ input' = events
            /\ args' = [DefaultArgs EXCEPT !.thresholdTime = thresholdTime]
            /\ ret' = [NoRet EXCEPT !.seq = sorted,
                                    !.ptr = FirstEventAfter(sorted, thresholdTime)]
            /\ printed' = NoPrint
            /\ outcome' = "returned"
            /\ UNCHANGED <<events, sortImpl>>

\* The call is over: the caller lets go of what was returned and goes on with
\* its vector as the call left it.
Discard ==
    /\ op /= "none"
    /\ op' = "none"
    /\ input' = <<>>
    /\ args' = DefaultArgs
    /\ ret' = NoRet
    /\ printed' = NoPrint
    /\ outcome' = "returned"
    /\ UNCHANGED <<events, sortImpl>>

Next ==
    \/ CallConstructMockingSimulationEventVector
    \/ CallSortByTime
    \/ CallSortByTimeAndReturnACopy
    \/ CallSortEventsByTime
    \/ CallSortEventsByTime_const
    \/ CallFliterBySource
    \/ CallFilterByType_constRef
    \/ CallFilterByType
    \/ CallGroupByType
    \/ CallGroupBySource
    \/ CallGroupBySource_2
    \/ CallAcumulatebySource
    \/ CallAcumulateTotalBySource
    \/ CallAccumalateValueBySource
    \/ CallComputeTotalValueBySource
    \/ CallFirstEventAfter_constRef
    \/ CallFirstEventAfter
    \/ CallFirstEventAfter_SortByTime
    \/ Discard

Spec == Init /\ [][Next]_vars

---------------------------------------------------------------------------
(* What the properties are stated with *)

\* the reference set, in insertion order
Reference == ConstructMockingSimulationEventVector(<<>>)

\* the events of s with the given source / kind / timestamp, in the order of s
WithSource(s, source) == LET Test(e) == e.source = source IN SelectSeq(s, Test)
WithType(s, type) == LET Test(e) == e.type = type IN SelectSeq(s, Test)
WithTime(s, t) == LET Test(e) == e.timestampSec = t IN SelectSeq(s, Test)

Elements(s) == { s[i] : i \in 1..Len(s) }
Count(s, e) == Cardinality({ i \in 1..Len(s) : s[i] = e })
SameMultiset(s, t) ==
    /\ Len(s) = Len(t)
    /\ \A e \in Elements(s) \cup Elements(t) : Count(s, e) = Count(t, e)

RECURSIVE SumAt(_, _)
SumAt(s, positions) ==
    IF positions = {} THEN 0
    ELSE LET i == CHOOSE i \in positions : TRUE
         IN  s[i].value + SumAt(s, positions \ {i})

\* the positions of s whose timestamp is strictly greater than t
After(s, t) == { i \in 1..Len(s) : s[i].timestampSec > t }

---------------------------------------------------------------------------
(* C1 *)

\* C1: FliterBySource(events, s) returns exactly the events of `events` whose
\* source equals s, each as often as it occurs, in their original order.
C1_FliterBySourceExact ==
    op = "FliterBySource" => ret.seq = WithSource(input, args.source)

---------------------------------------------------------------------------
(* C2 *)

\* C2: for a vector in any order and any threshold t, both FirstEventAfter
\* overloads return a pointer to the element at the smallest index whose
\* timestampSec is strictly greater than t, and nullptr exactly when no element
\* has timestampSec > t.
C2_FirstEventAfterSmallestIndex ==
    op \in {"FirstEventAfter_constRef", "FirstEventAfter"} =>
        LET after == After(input, args.thresholdTime)
        IN  /\ (after = {}) <=> ret.ptr.null
            /\ after /= {} =>
                  /\ ret.ptr.index + 1 \in after
                  /\ \A j \in after : ret.ptr.index + 1 <= j

\* reached: the element found comes after one that does not qualify and before
\* one that qualifies with a smaller timestamp (first by position, not by time)
C2_Witness ==
    /\ op = "FirstEventAfter"
    /\ ~ret.ptr.null
    /\ ret.ptr.index > 0
    /\ \E j \in After(input, args.thresholdTime) :
          /\ j > ret.ptr.index + 1
          /\ input[j].timestampSec < input[ret.ptr.index + 1].timestampSec

---------------------------------------------------------------------------
(* C3 *)

\* C3: sorting by timestamp is stable: events with equal timestampSec come out
\* of SortByTime, and of the in-place SortEventsByTime, in their input order.
C3_SortIsStable ==
    /\ op = "SortByTime" =>
          \A i \in 1..Len(input) :
              WithTime(ret.seq, input[i].timestampSec) = WithTime(input, input[i].timestampSec)
    /\ op = "SortEventsByTime" =>
          \A i \in 1..Len(input) :
              WithTime(events, input[i].timestampSec) = WithTime(input, input[i].timestampSec)

---------------------------------------------------------------------------
(* C4 *)

\* C4: the result of SortByTime and of SortByTimeAndReturnACopy is a permutation
\* of the input (same length, same multiset of events) whose timestampSec never
\* decreases from one position to the next.
C4_SortIsSortedPermutation ==
    op \in {"SortByTime", "SortByTimeAndReturnACopy"} =>
        /\ SameMultiset(ret.seq, input)
        /\ \A i \in 1..(Len(ret.seq) - 1) :
              ret.seq[i].timestampSec <= ret.seq[i + 1].timestampSec

\* reached: an unsorted input holding one event twice, and its sorted result
C4_Witness ==
    /\ op = "SortByTime"
    /\ ret.seq /= input
    /\ \E i, j \in 1..Len(input) : i /= j /\ input[i] = input[j]

---------------------------------------------------------------------------
(* C5 *)

\* C5: GroupBySource (either definition) returns a partition of the input: the
\* keys are exactly the sources that occur, no key maps to an empty vector, the
\* vector under key s is the subsequence of input events with source s in
\* their original order, and every input event is in exactly one group.
C5_GroupBySourcePartition ==
    op \in {"GroupBySource", "GroupBySource_2"} =>
        /\ DOMAIN ret.map = { input[i].source : i \in 1..Len(input) }
        /\ \A s \in DOMAIN ret.map :
              /\ ret.map[s] /= <<>>
              /\ ret.map[s] = WithSource(input, s)
        /\ \A i \in 1..Len(input) :
              Cardinality({ s \in DOMAIN ret.map : input[i] \in Elements(ret.map[s]) }) = 1

\* reached: two groups, one of them holding two events that another group's
\* event separates in the input
C5_Witness ==
    /\ op = "GroupBySource"
    /\ Cardinality(DOMAIN ret.map) >= 2
    /\ \E i, j, k \in 1..Len(input) :
          /\ i < j /\ j < k
          /\ input[i].source = input[k].source
          /\ input[j].source /= input[i].source
          /\ Len(ret.map[input[i].source]) = 2

---------------------------------------------------------------------------
(* C6 *)

\* C6: each sum-by-source fold returns the sum of `value` over exactly the
\* events whose source equals s, 0 when the vector is empty or nothing matches,
\* and 310 on the reference set with s = "pilot".
C6_SumBySource ==
    op \in {"AcumulateTotalBySource", "AccumalateValueBySource", "ComputeTotalValueBySource"} =>
        LET matching == { i \in 1..Len(input) : input[i].source = args.source }
        IN  /\ ret.sum = SumAt(input, matching)
            /\ matching = {} => ret.sum = 0
            /\ (input = Reference /\ args.source = "pilot") => ret.sum = 310

\* reached: the reference set summed for "pilot"
C6_Witness ==
    /\ op = "AcumulateTotalBySource"
    /\ input = Reference
    /\ args.source = "pilot"
    /\ ret.sum = 75 + 85 + 80 + 70

---------------------------------------------------------------------------
(* C7 *)

\* C7: FilterByType taking the kind by value returns exactly the events of the
\* input whose type is K, each as often as it occurs, in their original order,
\* and nothing else.
C7_FilterByTypeExact ==
    op = "FilterByType" =>
        /\ ret.seq = WithType(input, args.type)
        /\ \A i \in 1..Len(ret.seq) : ret.seq[i].type = args.type

\* reached: some events of the input are kept, one of them twice, and some dropped
C7_Witness ==
    /\ op = "FilterByType"
    /\ ret.seq /= input
    /\ \E i, j \in 1..Len(ret.seq) : i /= j /\ ret.seq[i] = ret.seq[j]

---------------------------------------------------------------------------
(* C8 *)

\* C8 as stated: on the reference set in insertion order,
\* FirstEventAfter(events, 6.0) returns the event at index 0.
C8_ReferenceIndex0 ==
    (op = "FirstEventAfter" /\ input = Reference /\ args.thresholdTime = 60) =>
        ret.ptr = PtrTo(0)

\* C8 as amended: on the reference set in insertion order,
\* FirstEventAfter(events, 6.0) returns the event at index 2, which is
\* 10.5 / CONTROL_INPUT / "pilot" / 85.0.
C8_ReferenceIndex2 ==
    (op = "FirstEventAfter" /\ input = Reference /\ args.thresholdTime = 60) =>
        /\ ret.ptr = PtrTo(2)
        /\ input[ret.ptr.index + 1] = SimulationEvent(105, "CONTROL_INPUT", "pilot", 85)

\* reached: that call on the reference set, freshly built and not sorted
C8_Witness ==
    /\ op = "FirstEventAfter"
    /\ input = Reference
    /\ events = Reference
    /\ args.thresholdTime = 60
    /\ ~ret.ptr.null

---------------------------------------------------------------------------
(* C9 *)

\* C9: on the empty vector every filter, group and fold returns normally with
\* the empty result: the filters an empty vector, the groupings an empty map,
\* the folds 0, and FirstEventAfter nullptr.
C9_EmptyInput ==
    (op \notin {"none", "ConstructMockingSimulationEventVector"} /\ input = <<>>) =>
        /\ outcome = "returned"
        /\ op \in {"FliterBySource", "FilterByType", "FilterByType_constRef"} =>
              ret.seq = <<>>
        /\ op \in {"GroupBySource", "GroupBySource_2", "GroupByType"} =>
              DOMAIN ret.map = {}
        /\ op \in {"AcumulatebySource", "AcumulateTotalBySource",
                   "AccumalateValueBySource", "ComputeTotalValueBySource"} =>
              ret.sum = 0
        /\ op \in {"FirstEventAfter", "FirstEventAfter_constRef"} =>
              ret.ptr = NullPtr

---------------------------------------------------------------------------
(* C10 *)

---------------------------------------------------------------------------
(* C11 *)

\* C11: FirstEventAfter on the result of SortByTime returns an event whose
\* timestampSec is the least of the timestamps of `events` that are strictly
\* greater than t, whatever the order of `events`, and nullptr when there is
\* none; on the reference set with t = 6.0 it is 7.5 / CONTROL_INPUT / "pilot" /
\* 70.0.
C11_SortThenFirstIsEarliest ==
    op = "FirstEventAfter_SortByTime" =>
        LET later == { input[i].timestampSec : i \in After(input, args.thresholdTime) }
        IN  /\ (later = {}) <=> ret.ptr.null
            /\ later /= {} =>
                  /\ ret.ptr.index + 1 \in 1..Len(ret.seq)
                  /\ ret.seq[ret.ptr.index + 1].timestampSec \in later
                  /\ \A t \in later : ret.seq[ret.ptr.index + 1].timestampSec <= t
            /\ (input = Reference /\ args.thresholdTime = 60) =>
                  ret.seq[ret.ptr.index + 1] = SimulationEvent(75, "CONTROL_INPUT", "pilot", 70)

\* reached: the reference set in insertion order, where the search without the
\* sort finds another, later event
C11_Witness ==
    /\ op = "FirstEventAfter_SortByTime"
    /\ input = Reference
    /\ args.thresholdTime = 60
    /\ ~ret.ptr.null
    /\ ret.seq[ret.ptr.index + 1].timestampSec = 75
    /\ input[FirstEventAfter(input, 60).index + 1].timestampSec > 75

===========================================================================
